---- MODULE Spec2Model ----
(***************************************************************************)
(* Model of patzm/crawlers/linkedin_utils.py.                              *)
(*                                                                         *)
(* Two parts:                                                              *)
(*   - the session life cycle of LinkedInProvider (constructor,            *)
(*     activate_session, login, validate_login, _get_login_credentials,    *)
(*     cookie load/save, close), over several runs of the program that     *)
(*     share the cookie cache file and the credentials files;              *)
(*   - search_profile, the two-variant people search with the fuzzy name   *)
(*     match.                                                              *)
(*                                                                         *)
(* The browser (selenium driver), the LinkedIn site, the operator at the   *)
(* terminal and Levenshtein.ratio are the environment: what they answer is *)
(* chosen nondeterministically from small sets.  Similarity ratios are     *)
(* kept in hundredths (0.30 is 30).                                        *)
(***************************************************************************)
EXTENDS Integers, Sequences, FiniteSets, TLC

(* ------------------------------ bounds -------------------------------- *)

\* Number of program runs (constructor calls) that are followed.
MaxRuns == 2
\* Operator acknowledgments followed inside the checkpoint loop.
MaxAcks == 2
\* close() and __del__ calls followed after the constructor is over.
MaxCloses == 2
\* Search results a query may return.
MaxResults == 2
\* h1 elements on a profile page.
MaxHeadings == 2
\* Companies a company search may list.
MaxCompanies == 1
\* Info items on a company page.
MaxInfos == 2
\* Length, in symbols, up to which every href is tried.
MaxHref == 5

(* --------------------------- value domains ---------------------------- *)

\* The login argument of the constructor (lines 26-33): None, "" or a path.
LoginModes == {"None", "Empty", "Path"}

\* Pages the browser can be at.
HOME == "https://www.linkedin.com/"
LOGIN_URL == "https://www.linkedin.com/login"
MYNETWORK_URL == "https://www.linkedin.com/mynetwork/"
CHECKPOINT_URL == "https://www.linkedin.com/checkpoint/challenge"
MANAGE_URL == "https://www.linkedin.com/check/manage-account"
FEED_URL == "https://www.linkedin.com/feed/"
AUTHWALL_URL == "https://www.linkedin.com/authwall"

\* The cookies the site sets, as driver.get_cookies() lists them.
LI_AT == [name |-> "li_at", value |-> "AQEDAR"]
JSESSIONID == [name |-> "JSESSIONID", value |-> "ajax:1"]

Cookie == {LI_AT, JSESSIONID}

RECURSIVE SeqsUpTo(_, _)
\* All sequences over S of length at most n.
SeqsUpTo(S, n) ==
    IF n = 0 THEN {<< >>}
    ELSE LET shorter == SeqsUpTo(S, n - 1)
         IN  shorter \cup {Append(s, x) : s \in shorter, x \in S}

Range(s) == {s[i] : i \in DOMAIN s}

Last(s) == s[Len(s)]

\* What driver.get_cookies() can hold: a list of distinct cookies.
CookieSets ==
    {s \in SeqsUpTo(Cookie, Cardinality(Cookie)) : Cardinality(Range(s)) = Len(s)}

NoFile == [exists |-> FALSE, content |-> << >>]
FileOf(c) == [exists |-> TRUE, content |-> c]

(* pickle: the cookie file holds the opcodes pickle.dump writes for a list of
   dicts of strings, and pickle.load runs them on a stack. *)

\* An opcode without argument, and the opcode that pushes a string.
Op(o) == [op |-> o, arg |-> ""]
Str(x) == [op |-> "S", arg |-> x]

\* A dict: EMPTY_DICT, MARK, the keys and values, SETITEMS.
pickle_dict(c) ==
    <<Op("}"), Op("("), Str("name"), Str(c.name), Str("value"), Str(c.value), Op("u")>>

RECURSIVE pickle_items(_)
pickle_items(cookies) ==
    IF cookies = << >> THEN << >>
    ELSE pickle_dict(Head(cookies)) \o pickle_items(Tail(cookies))

\* Line 145, pickle.dump of a list: EMPTY_LIST, then APPEND after one item
\* or MARK, the items and APPENDS for more, then STOP.
pickle_dump(cookies) ==
    <<Op("]")>>
    \o (IF cookies = << >> THEN << >>
        ELSE IF Len(cookies) = 1 THEN pickle_dict(cookies[1]) \o <<Op("a")>>
        ELSE <<Op("(")>> \o pickle_items(cookies) \o <<Op("e")>>)
    \o <<Op(".")>>

\* The topmost MARK of the unpickler's stack.
TopMark(stack) ==
    CHOOSE m \in DOMAIN stack :
        /\ stack[m].kind = "mark"
        /\ \A j \in (m + 1)..Len(stack) : stack[j].kind # "mark"

\* The key/value pairs the strings above the MARK make.
Pairs(strs) == [i \in 1..(Len(strs) \div 2) |-> <<strs[2 * i - 1].val, strs[2 * i].val>>]

\* The values of a stack slice.
Vals(items) == [i \in DOMAIN items |-> items[i].val]

\* The value a dict, kept as its sequence of pairs, has for a key: the last
\* one set.
Lookup(d, k) ==
    LET i == CHOOSE i \in DOMAIN d :
                 d[i][1] = k /\ \A j \in (i + 1)..Len(d) : d[j][1] # k
    IN  d[i][2]

CookieOf(d) == [name |-> Lookup(d, "name"), value |-> Lookup(d, "value")]

RECURSIVE unpickle(_, _, _)
\* The unpickler at opcode i of the file.
unpickle(bytes, i, stack) ==
    LET o == bytes[i]
        n == Len(stack)
    IN  IF o.op = "." THEN stack[n].val
        ELSE IF o.op = "]" THEN
            unpickle(bytes, i + 1, Append(stack, [kind |-> "list", val |-> << >>]))
        ELSE IF o.op = "}" THEN
            unpickle(bytes, i + 1, Append(stack, [kind |-> "dict", val |-> << >>]))
        ELSE IF o.op = "(" THEN
            unpickle(bytes, i + 1, Append(stack, [kind |-> "mark", val |-> << >>]))
        ELSE IF o.op = "S" THEN
            unpickle(bytes, i + 1, Append(stack, [kind |-> "str", val |-> o.arg]))
        ELSE IF o.op = "a" THEN
            unpickle(bytes, i + 1,
                     Append(SubSeq(stack, 1, n - 2),
                            [kind |-> "list",
                             val |-> Append(stack[n - 1].val, stack[n].val)]))
        ELSE LET m == TopMark(stack)
                 items == SubSeq(stack, m + 1, n)
             IN  IF o.op = "u" THEN
                     unpickle(bytes, i + 1,
                              Append(SubSeq(stack, 1, m - 2),
                                     [kind |-> "dict",
                                      val |-> stack[m - 1].val \o Pairs(items)]))
                 ELSE unpickle(bytes, i + 1,
                               Append(SubSeq(stack, 1, m - 2),
                                      [kind |-> "list",
                                       val |-> stack[m - 1].val \o Vals(items)]))

Reverse(s) == [i \in DOMAIN s |-> s[Len(s) + 1 - i]]

pickle_load_reversed(bytes) ==
    LET dicts == unpickle(bytes, 1, << >>)
    IN  Reverse([i \in DOMAIN dicts |-> CookieOf(dicts[i])])

\* Line 139, pickle.load: the list of cookie dicts the file holds.
pickle_load(bytes) ==
    LET dicts == unpickle(bytes, 1, << >>)
    IN  [i \in DOMAIN dicts |-> CookieOf(dicts[i])]

\* Outcomes of WebDriverWait.until: the element shows up, TimeoutException,
\* or any other WebDriverException.
WaitOutcomes == {"present", "timeout", "error"}

\* The constructor is over in these positions.
Terminal == {"constructed", "raised", "exited", "crashed"}

VARIABLES
    pc,             \* position of the constructor's control flow
    runs,           \* program runs started so far
    login,          \* the login argument of this run
    driver,         \* self.driver: "None" | "open"
    currentUrl,     \* driver.current_url
    driverCookies,  \* the browser's cookie store
    cookieFile,     \* <cache_dir>/linkedin_cookies.pkl
    credFiles,      \* credentials files: default (config_dir) and the given path
    credentials,    \* the credentials handed to login()
    retTo,          \* caller of the running validate_login
    validated,      \* the last validate_login call: what it saw and returned
    result,         \* return value of activate_session
    calls,          \* history: methods called in this run, in order
    writes,         \* history: writes of the cookie file in this run
    injected,       \* history: cookies passed to driver.add_cookie in this run
    typedOn,        \* history: page where login() typed the credentials
    prompts,        \* history: operator prompts of this run
    acks,           \* operator acknowledgments in the checkpoint loop
    browserOps,     \* history: driver.close()/driver.quit() calls of this run
    atStart,        \* history: the files as this run found them
    waited,         \* history: the last wait_for call, what happened and its result
    stored,         \* history: the cookies of the last _save_cookies, and its run
    closeCalls,     \* history: close() calls of this run
    sp_pc,          \* position of search_profile's control flow
    sp_i,           \* index of the employment variant of the running iteration
    sp_match_rating,\* the local match_rating
    sp_ret,         \* the value search_profile returned
    sp_log,         \* history: one record per variant queried in this call
    sc_pc,          \* position of search_company's control flow
    sc_companies,   \* the local list companies
    sc_k,           \* index of the company whose page is visited
    sc_n,           \* number of info items found on that page
    sc_log,         \* history: the info items of that page examined so far
    sc_done,        \* history: the ids each company had when its visit ended
    sc_ret          \* the list search_company returned

sessionVars == <<pc, runs, login, driver, currentUrl, driverCookies, cookieFile,
                 credFiles, credentials, retTo, validated, result, calls, writes,
                 injected, typedOn, prompts, acks, browserOps, atStart, waited,
                 stored, closeCalls>>

searchVars == <<sp_pc, sp_i, sp_match_rating, sp_ret, sp_log>>

companyVars == <<sc_pc, sc_companies, sc_k, sc_n, sc_log, sc_done, sc_ret>>

vars == <<sessionVars, searchVars, companyVars>>

NoReturn == [url |-> "unset", score |-> 0]

NoWait == [called |-> FALSE, outcome |-> "none", result |-> "none"]

SearchIdle ==
    /\ sp_pc = "idle"
    /\ sp_i = 1
    /\ sp_match_rating = 0
    /\ sp_ret = NoReturn
    /\ sp_log = << >>

CompanyIdle ==
    /\ sc_pc = "idle"
    /\ sc_companies = << >>
    /\ sc_k = 0
    /\ sc_n = 0
    /\ sc_log = << >>
    /\ sc_done = << >>
    /\ sc_ret = << >>

Init ==
    /\ pc = "idle"
    /\ runs = 0
    /\ login = "None"
    /\ driver = "None"
    /\ currentUrl = "about:blank"
    /\ driverCookies = << >>
    /\ cookieFile \in {NoFile} \cup {FileOf(pickle_dump(c)) : c \in CookieSets}
    /\ credFiles \in [{"default", "path"} -> {"absent", "filled"}]
    /\ credentials = "none"
    /\ retTo = "none"
    /\ validated = [called |-> FALSE, urlMatches |-> FALSE, marker |-> FALSE, ret |-> FALSE]
    /\ result = "unset"
    /\ calls = << >>
    /\ writes = 0
    /\ injected = << >>
    /\ typedOn = "nowhere"
    /\ prompts = << >>
    /\ acks = 0
    /\ browserOps = << >>
    /\ atStart = [cookieFile |-> cookieFile, credFiles |-> credFiles]
    /\ waited = NoWait
    /\ stored = [run |-> 0, cookies |-> << >>]
    /\ closeCalls = 0
    /\ SearchIdle
    /\ CompanyIdle

(* ----------------------- pure parts of the code ----------------------- *)

use_cookies_ignores_login(l, fileExists) == fileExists

\* activate_session, line 59: use_cookies = login is None and os.path.exists(cookies_file)
use_cookies(l, fileExists) == l = "None" /\ fileExists

\* wait_for, lines 155-160: True when the element is present, False on
\* TimeoutException (any other exception leaves the function, see the callers).
wait_for(outcome) == outcome = "present"

wait_for_catches_all(outcome) == FALSE

\* wait_for, line 159: TimeoutException is the one exception caught; every
\* other exception of the wait leaves wait_for.
wait_for_raises(outcome) == outcome = "error"

\* What a wait_for call did, for the history.
Waited(outcome) ==
    [called |-> TRUE, outcome |-> outcome,
     result |-> IF wait_for_raises(outcome) THEN "raised"
                ELSE IF wait_for(outcome) THEN "True" ELSE "False"]

\* validate_login, lines 105-107: the result of wait_for is dropped, the
\* return value is the comparison of current_url with the mynetwork URL.
validate_login_result(urlMatches, markerAppeared) == urlMatches

\* driver.add_cookie: a cookie already in the store is replaced in place.
add_cookie(store, c) == IF c \in Range(store) THEN store ELSE Append(store, c)

RECURSIVE load_cookies(_, _)
\* _load_cookies, lines 138-141: every cookie of the pickled list, in order.
load_cookies(store, cookies) ==
    IF cookies = << >> THEN store
    ELSE load_cookies(add_cookie(store, Head(cookies)), Tail(cookies))

init_outcome_ignores_result(r) == "constructed"

\* __init__, lines 49-52: normal completion or RuntimeError.
init_outcome(r) == IF r = "True" THEN "constructed" ELSE "raised"

\* _get_login_credentials, lines 122-123: the file the credentials are read from.
credentials_path(l) == IF l = "None" THEN "default" ELSE "path"

(* ------------------------------ actions ------------------------------- *)

\* __init__, lines 37-47: start the browser and open the home page.  When
\* webdriver.Firefox raises, self.driver is still None.
LinkedInProvider_init ==
    /\ pc = "idle"
    /\ runs < MaxRuns
    /\ runs' = runs + 1
    /\ \E l \in LoginModes, started \in BOOLEAN :
         /\ login' = l
         /\ IF started
            THEN /\ driver' = "open"
                 /\ currentUrl' = HOME
                 /\ pc' = "activate_session"
            ELSE /\ driver' = "None"
                 /\ pc' = "crashed"
                 /\ UNCHANGED currentUrl
    /\ UNCHANGED <<driverCookies, cookieFile, credFiles, credentials, retTo,
                   validated, result, calls, writes, injected, typedOn, prompts,
                   acks, browserOps>>
    /\ atStart' = [cookieFile |-> cookieFile, credFiles |-> credFiles]
    /\ UNCHANGED searchVars
    /\ UNCHANGED <<waited, stored, closeCalls>>
    /\ UNCHANGED companyVars

\* activate_session, lines 58-61 (and the fall through to line 65).
activate_session ==
    /\ pc = "activate_session"
    /\ IF use_cookies(login, cookieFile.exists)
       THEN /\ driverCookies' =
                    load_cookies(driverCookies, pickle_load(cookieFile.content))
            /\ injected' = injected \o pickle_load(cookieFile.content)
            /\ calls' = calls \o <<"_load_cookies">>
            /\ retTo' = "restore"
            /\ pc' = "validate_login"
       ELSE /\ pc' = "get_login_credentials"
            /\ UNCHANGED <<driverCookies, injected, calls, retTo>>
    /\ UNCHANGED <<runs, login, driver, currentUrl, cookieFile, credFiles,
                   credentials, validated, result, writes, typedOn, prompts, acks,
                   browserOps, atStart>>
    /\ UNCHANGED searchVars
    /\ UNCHANGED <<waited, stored, closeCalls>>
    /\ UNCHANGED companyVars

\* validate_login, lines 103-107, for each of its three callers.
validate_login ==
    /\ pc = "validate_login"
    /\ \E u \in {MYNETWORK_URL, LOGIN_URL, AUTHWALL_URL}, w \in WaitOutcomes :
         /\ currentUrl' = u
         /\ waited' = Waited(w)
         /\ IF wait_for_raises(w)
            THEN /\ pc' = "crashed"
                 /\ calls' = calls \o <<"validate_login raised">>
                 /\ UNCHANGED validated
            ELSE /\ pc' = "validated"
                 /\ calls' = calls \o
                      <<IF validate_login_result(u = MYNETWORK_URL, wait_for(w))
                        THEN "validate_login -> True"
                        ELSE "validate_login -> False">>
                 /\ validated' =
                      [called |-> TRUE,
                       urlMatches |-> (u = MYNETWORK_URL),
                       marker |-> wait_for(w),
                       ret |-> validate_login_result(u = MYNETWORK_URL, wait_for(w))]
    /\ UNCHANGED <<runs, login, driver, driverCookies, cookieFile, credFiles,
                   credentials, retTo, result, writes, injected, typedOn, prompts,
                   acks, browserOps, atStart>>
    /\ UNCHANGED searchVars
    /\ UNCHANGED <<stored, closeCalls>>
    /\ UNCHANGED companyVars

\* activate_session, lines 62-63 as a slip would have them: a failed
\* validation of the restored cookies reported as the failure of the session.
activate_session_restored_no_fallback ==
    /\ pc = "validated"
    /\ retTo = "restore"
    /\ result' = IF validated.ret THEN "True" ELSE "False"
    /\ pc' = "init_result"
    /\ retTo' = "none"
    /\ UNCHANGED <<runs, login, driver, currentUrl, driverCookies, cookieFile,
                   credFiles, credentials, validated, calls, writes, injected,
                   typedOn, prompts, acks, browserOps, atStart>>
    /\ UNCHANGED searchVars
    /\ UNCHANGED <<waited, stored, closeCalls>>
    /\ UNCHANGED companyVars

\* activate_session, lines 62-65 as a slip would have them: the early return
\* is missing, the explicit login follows whatever the validation said.
activate_session_restored_no_return ==
    /\ pc = "validated"
    /\ retTo = "restore"
    /\ pc' = "get_login_credentials"
    /\ retTo' = "none"
    /\ UNCHANGED <<runs, login, driver, currentUrl, driverCookies, cookieFile,
                   credFiles, credentials, validated, result, calls, writes,
                   injected, typedOn, prompts, acks, browserOps, atStart>>
    /\ UNCHANGED searchVars
    /\ UNCHANGED <<waited, stored, closeCalls>>
    /\ UNCHANGED companyVars

\* activate_session, lines 62-65: return True when the restored cookies
\* validate, otherwise go on to the credentials and the explicit login.
activate_session_restored ==
    /\ pc = "validated"
    /\ retTo = "restore"
    /\ IF validated.ret
       THEN /\ result' = "True"
            /\ pc' = "init_result"
       ELSE /\ pc' = "get_login_credentials"
            /\ UNCHANGED result
    /\ retTo' = "none"
    /\ UNCHANGED <<runs, login, driver, currentUrl, driverCookies, cookieFile,
                   credFiles, credentials, validated, calls, writes, injected,
                   typedOn, prompts, acks, browserOps, atStart>>
    /\ UNCHANGED searchVars
    /\ UNCHANGED <<waited, stored, closeCalls>>
    /\ UNCHANGED companyVars

\* _get_login_credentials as a slip would have it: the template is written
\* and returned as the credentials, without the exit(0) of line 131.
get_login_credentials_no_exit ==
    /\ pc = "get_login_credentials"
    /\ calls' = calls \o <<"_get_login_credentials">>
    /\ IF login = "Empty"
       THEN /\ prompts' = prompts \o <<"username", "password">>
            /\ credentials' = "typed"
            /\ UNCHANGED credFiles
       ELSE LET path == IF login = "None" THEN "default" ELSE "path"
            IN  IF credFiles[path] = "absent"
                THEN /\ credFiles' = [credFiles EXCEPT ![path] = "template"]
                     /\ credentials' = "template"
                     /\ UNCHANGED prompts
                ELSE /\ credentials' = credFiles[path]
                     /\ UNCHANGED <<credFiles, prompts>>
    /\ pc' = "login"
    /\ UNCHANGED <<runs, login, driver, currentUrl, driverCookies, cookieFile,
                   retTo, validated, result, writes, injected, typedOn, acks,
                   browserOps, atStart>>
    /\ UNCHANGED searchVars
    /\ UNCHANGED <<waited, stored, closeCalls>>
    /\ UNCHANGED companyVars

\* _get_login_credentials, lines 109-135.  An empty login prompts the operator;
\* otherwise the credentials file is read, and when it does not exist the
\* template is written and exit(0) ends the run.
get_login_credentials ==
    /\ pc = "get_login_credentials"
    /\ calls' = calls \o <<"_get_login_credentials">>
    /\ IF login = "Empty"
       THEN /\ prompts' = prompts \o <<"username", "password">>
            /\ credentials' = "typed"
            /\ pc' = "login"
            /\ UNCHANGED credFiles
       ELSE LET path == credentials_path(login)
            IN  IF credFiles[path] = "absent"
                THEN /\ credFiles' = [credFiles EXCEPT ![path] = "template"]
                     /\ pc' = "exited"
                     /\ UNCHANGED <<credentials, prompts>>
                ELSE /\ credentials' = credFiles[path]
                     /\ pc' = "login"
                     /\ UNCHANGED <<credFiles, prompts>>
    /\ UNCHANGED <<runs, login, driver, currentUrl, driverCookies, cookieFile,
                   retTo, validated, result, writes, injected, typedOn, acks,
                   browserOps, atStart>>
    /\ UNCHANGED searchVars
    /\ UNCHANGED <<waited, stored, closeCalls>>
    /\ UNCHANGED companyVars

\* login, lines 80-82: open the login page; when the browser ends up somewhere
\* else, validate_login is called (the right operand of the "and").
login_open ==
    /\ pc = "login"
    /\ calls' = calls \o <<"login">>
    /\ \E u \in {LOGIN_URL, FEED_URL} :
         /\ currentUrl' = u
         /\ IF u # LOGIN_URL
            THEN /\ pc' = "validate_login"
                 /\ retTo' = "login"
            ELSE /\ pc' = "login_form"
                 /\ UNCHANGED retTo
    /\ UNCHANGED <<runs, login, driver, driverCookies, cookieFile, credFiles,
                   credentials, validated, result, writes, injected, typedOn,
                   prompts, acks, browserOps, atStart>>
    /\ UNCHANGED searchVars
    /\ UNCHANGED <<waited, stored, closeCalls>>
    /\ UNCHANGED companyVars

\* login, lines 82-84: "Already logged in", return; otherwise go on to the form.
login_already ==
    /\ pc = "validated"
    /\ retTo = "login"
    /\ IF validated.ret
       THEN /\ pc' = "validate_login"
            /\ retTo' = "activate_session"
       ELSE /\ pc' = "login_form"
            /\ retTo' = "none"
    /\ UNCHANGED <<runs, login, driver, currentUrl, driverCookies, cookieFile,
                   credFiles, credentials, validated, result, calls, writes,
                   injected, typedOn, prompts, acks, browserOps, atStart>>
    /\ UNCHANGED searchVars
    /\ UNCHANGED <<waited, stored, closeCalls>>
    /\ UNCHANGED companyVars

\* login, lines 86-95: find the fields, type the credentials, click submit.
\* find_element raises NoSuchElementException on a page without the form; the
\* login page has it.  The site answers the submission with a page and cookies.
login_form ==
    /\ pc = "login_form"
    /\ \E hasForm \in BOOLEAN :
         /\ currentUrl = LOGIN_URL => hasForm
         /\ IF hasForm
            THEN /\ typedOn' = currentUrl
                 /\ \E u \in {FEED_URL, CHECKPOINT_URL, MANAGE_URL, LOGIN_URL},
                       cs \in CookieSets :
                      /\ currentUrl' = u
                      /\ driverCookies' = cs
                 /\ pc' = "login_checkpoint"
            ELSE /\ pc' = "crashed"
                 /\ UNCHANGED <<typedOn, currentUrl, driverCookies>>
    /\ UNCHANGED <<runs, login, driver, cookieFile, credFiles, credentials, retTo,
                   validated, result, calls, writes, injected, prompts, acks,
                   browserOps, atStart>>
    /\ UNCHANGED searchVars
    /\ UNCHANGED <<waited, stored, closeCalls>>
    /\ UNCHANGED companyVars

\* login, lines 97-98: one turn of the checkpoint loop: input() blocks until
\* the operator acknowledges, then the URL is read again.
login_checkpoint ==
    /\ pc = "login_checkpoint"
    /\ currentUrl = CHECKPOINT_URL
    /\ acks < MaxAcks
    /\ acks' = acks + 1
    /\ prompts' = prompts \o <<"checkpoint">>
    /\ \E u \in {CHECKPOINT_URL, FEED_URL, MANAGE_URL} : currentUrl' = u
    /\ UNCHANGED <<pc, runs, login, driver, driverCookies, cookieFile, credFiles,
                   credentials, retTo, validated, result, calls, writes, injected,
                   typedOn, browserOps, atStart>>
    /\ UNCHANGED searchVars
    /\ UNCHANGED <<waited, stored, closeCalls>>
    /\ UNCHANGED companyVars

\* login, lines 97-101 as a slip would have them: the loop gives up after
\* one acknowledgment.
login_manage_account_gives_up ==
    /\ pc = "login_checkpoint"
    /\ currentUrl # CHECKPOINT_URL \/ acks >= 1
    /\ prompts' = IF currentUrl = MANAGE_URL
                  THEN prompts \o <<"manage-account">>
                  ELSE prompts
    /\ pc' = "validate_login"
    /\ retTo' = "activate_session"
    /\ UNCHANGED <<runs, login, driver, currentUrl, driverCookies, cookieFile,
                   credFiles, credentials, validated, result, calls, writes,
                   injected, typedOn, acks, browserOps, atStart>>
    /\ UNCHANGED searchVars
    /\ UNCHANGED <<waited, stored, closeCalls>>
    /\ UNCHANGED companyVars

\* login, lines 100-101 as a slip would have them: the account management
\* dialog is passed over without a word to the operator.
login_manage_account_silent ==
    /\ pc = "login_checkpoint"
    /\ currentUrl # CHECKPOINT_URL
    /\ pc' = "validate_login"
    /\ retTo' = "activate_session"
    /\ UNCHANGED <<runs, login, driver, currentUrl, driverCookies, cookieFile,
                   credFiles, credentials, validated, result, calls, writes,
                   injected, typedOn, prompts, acks, browserOps, atStart>>
    /\ UNCHANGED searchVars
    /\ UNCHANGED <<waited, stored, closeCalls>>
    /\ UNCHANGED companyVars

\* login, lines 97 and 100-101: the loop is left, the account management
\* dialog is left to the operator, login returns to activate_session line 67.
login_manage_account ==
    /\ pc = "login_checkpoint"
    /\ currentUrl # CHECKPOINT_URL
    /\ prompts' = IF currentUrl = MANAGE_URL
                  THEN prompts \o <<"manage-account">>
                  ELSE prompts
    /\ pc' = "validate_login"
    /\ retTo' = "activate_session"
    /\ UNCHANGED <<runs, login, driver, currentUrl, driverCookies, cookieFile,
                   credFiles, credentials, validated, result, calls, writes,
                   injected, typedOn, acks, browserOps, atStart>>
    /\ UNCHANGED searchVars
    /\ UNCHANGED <<waited, stored, closeCalls>>
    /\ UNCHANGED companyVars

\* _save_cookies, lines 143-145: pickle.dump(self.driver.get_cookies(), file).
save_cookies(store) == FileOf(pickle_dump(store))

\* activate_session, lines 67-71 as a slip would have them: the cookies are
\* stored whatever the validation said.
activate_session_finish_always_saves ==
    /\ pc = "validated"
    /\ retTo = "activate_session"
    /\ cookieFile' = save_cookies(driverCookies)
    /\ writes' = writes + 1
    /\ calls' = calls \o <<"_save_cookies">>
    /\ result' = IF validated.ret THEN "True" ELSE "False"
    /\ pc' = "init_result"
    /\ retTo' = "none"
    /\ UNCHANGED <<runs, login, driver, currentUrl, driverCookies, credFiles,
                   credentials, validated, injected, typedOn, prompts, acks,
                   browserOps, atStart>>
    /\ UNCHANGED searchVars
    /\ stored' = [run |-> runs, cookies |-> driverCookies]
    /\ UNCHANGED <<waited, closeCalls>>
    /\ UNCHANGED companyVars

\* activate_session, lines 67-71: after login(), store the cookies and return
\* True when validate_login succeeds, return False otherwise.
activate_session_finish ==
    /\ pc = "validated"
    /\ retTo = "activate_session"
    /\ IF validated.ret
       THEN /\ cookieFile' = save_cookies(driverCookies)
            /\ writes' = writes + 1
            /\ calls' = calls \o <<"_save_cookies">>
            /\ result' = "True"
       ELSE /\ result' = "False"
            /\ UNCHANGED <<cookieFile, writes, calls>>
    /\ pc' = "init_result"
    /\ retTo' = "none"
    /\ UNCHANGED <<runs, login, driver, currentUrl, driverCookies, credFiles,
                   credentials, validated, injected, typedOn, prompts, acks,
                   browserOps, atStart>>
    /\ UNCHANGED searchVars
    /\ stored' = IF validated.ret
               THEN [run |-> runs, cookies |-> driverCookies]
               ELSE stored
    /\ UNCHANGED <<waited, closeCalls>>
    /\ UNCHANGED companyVars

\* __init__, lines 49-52: the instance is handed out or RuntimeError is raised.
init_result ==
    /\ pc = "init_result"
    /\ pc' = init_outcome(result)
    /\ UNCHANGED <<runs, login, driver, currentUrl, driverCookies, cookieFile,
                   credFiles, credentials, retTo, validated, result, calls, writes,
                   injected, typedOn, prompts, acks, browserOps, atStart>>
    /\ UNCHANGED searchVars
    /\ UNCHANGED <<waited, stored, closeCalls>>
    /\ UNCHANGED companyVars

\* close, lines 73-77 as a slip would have them: the driver field is not
\* reset (line 77 is missing).
close_without_reset ==
    /\ pc \in Terminal
    /\ closeCalls < MaxCloses
    /\ closeCalls' = closeCalls + 1
    /\ IF driver # "None"
       THEN browserOps' = browserOps \o <<"close", "quit">>
       ELSE UNCHANGED browserOps
    /\ UNCHANGED <<pc, runs, login, driver, currentUrl, driverCookies, cookieFile,
                   credFiles, credentials, retTo, validated, result, calls, writes,
                   injected, typedOn, prompts, acks, atStart>>
    /\ UNCHANGED searchVars
    /\ UNCHANGED <<waited, stored>>
    /\ UNCHANGED companyVars

\* close, lines 73-77, called by the user or through __del__ (lines 54-55),
\* once the constructor is over: it completed, raised or was left by exit.
close ==
    /\ pc \in Terminal
    /\ closeCalls < MaxCloses
    /\ closeCalls' = closeCalls + 1
    /\ IF driver # "None"
       THEN /\ browserOps' = browserOps \o <<"close", "quit">>
            /\ driver' = "None"
       ELSE UNCHANGED <<browserOps, driver>>
    /\ UNCHANGED <<pc, runs, login, currentUrl, driverCookies, cookieFile,
                   credFiles, credentials, retTo, validated, result, calls, writes,
                   injected, typedOn, prompts, acks, atStart>>
    /\ UNCHANGED searchVars
    /\ UNCHANGED <<waited, stored>>
    /\ UNCHANGED companyVars

\* The process ends; a later run starts with a fresh browser and finds the
\* files the earlier runs left.
new_run ==
    /\ pc \in Terminal
    /\ runs < MaxRuns
    /\ pc' = "idle"
    /\ driver' = "None"
    /\ currentUrl' = "about:blank"
    /\ driverCookies' = << >>
    /\ credentials' = "none"
    /\ retTo' = "none"
    /\ validated' = [called |-> FALSE, urlMatches |-> FALSE, marker |-> FALSE, ret |-> FALSE]
    /\ result' = "unset"
    /\ calls' = << >>
    /\ writes' = 0
    /\ injected' = << >>
    /\ typedOn' = "nowhere"
    /\ prompts' = << >>
    /\ acks' = 0
    /\ browserOps' = << >>
    /\ atStart' = [cookieFile |-> cookieFile, credFiles |-> credFiles]
    /\ UNCHANGED <<runs, login, cookieFile, credFiles>>
    /\ UNCHANGED searchVars
    /\ waited' = NoWait
    /\ closeCalls' = 0
    /\ UNCHANGED <<stored>>
    /\ UNCHANGED companyVars

Next ==
    \/ LinkedInProvider_init
    \/ activate_session
    \/ validate_login
    \/ activate_session_restored
    \/ get_login_credentials
    \/ login_open
    \/ login_already
    \/ login_form
    \/ login_checkpoint
    \/ login_manage_account
    \/ activate_session_finish
    \/ init_result
    \/ close
    \/ new_run

Spec == Init /\ [][Next]_vars

(* ------------------------ claims on the session ----------------------- *)

Count(seq, x) == Cardinality({i \in DOMAIN seq : seq[i] = x})

Called(name) == name \in Range(calls)

\* The validate_login calls of this run, in order.
Validations == SelectSeq(calls, LAMBDA c : c \in {"validate_login -> True",
                                                  "validate_login -> False",
                                                  "validate_login raised"})

\* The restoration of the cookies was tried and its validation said v.
Restored(v) ==
    /\ Len(calls) >= 2
    /\ calls[1] = "_load_cookies"
    /\ calls[2] = v

\* C1: whenever activate_session returns False (and the constructor raises
\* RuntimeError), login() was called earlier in the same run; in particular a
\* run whose cookie restoration failed reports no failure before login().
C1_LoginBeforeFailure ==
    (result = "False" \/ pc = "raised") =>
        \E i \in DOMAIN calls :
            /\ calls[i] = "login"
            /\ i < Len(calls)
            /\ Restored("validate_login -> False") => i > 2

C1_Witness ==
    /\ pc = "raised"
    /\ Restored("validate_login -> False")

\* C2: validate_login returns True exactly when the URL matches and the
\* marker element appeared within the wait.
C2_BothChecks ==
    validated.called => (validated.ret <=> (validated.urlMatches /\ validated.marker))

\* C3: with login None, an existing cookie file and a successful validation
\* of the restored cookies, activate_session returns True and neither
\* _get_login_credentials nor login is called: no credentials are read, no
\* template is written, the operator is not prompted.
C3_RestoredWithoutCredentials ==
    Restored("validate_login -> True") =>
        /\ login = "None"
        /\ atStart.cookieFile.exists
        /\ calls = <<"_load_cookies", "validate_login -> True">>
        /\ pc \in {"validated", "init_result", "constructed"}
        /\ pc # "validated" => result = "True"
        /\ credentials = "none"
        /\ credFiles = atStart.credFiles
        /\ prompts = << >>
        /\ typedOn = "nowhere"

C3_Witness ==
    /\ pc = "constructed"
    /\ Restored("validate_login -> True")
    /\ atStart.credFiles["default"] = "absent"

\* C4: when the credentials are to be read from a file (login is None or a
\* path) that does not exist, _get_login_credentials writes the template to
\* that path and the run ends there: login() is not called, nothing is typed
\* and activate_session returns neither True nor False.  A run is halted
\* this way for no other reason.
C4_MissingCredentialsHalt ==
    LET path == credentials_path(login)
        missing == login # "Empty" /\ atStart.credFiles[path] = "absent"
    IN  /\ (Called("_get_login_credentials") /\ missing) =>
              /\ pc = "exited"
              /\ credFiles = [atStart.credFiles EXCEPT ![path] = "template"]
              /\ ~Called("login")
              /\ typedOn = "nowhere"
              /\ result = "unset"
              /\ Last(calls) = "_get_login_credentials"
        /\ pc = "exited" => (Called("_get_login_credentials") /\ missing)

C4_Witness ==
    /\ pc = "exited"
    /\ Restored("validate_login -> False")

\* C5: a failed validation after the explicit login is terminal: there is one
\* login and nothing is called after that validation, activate_session
\* returns False and the constructor raises RuntimeError; the constructor
\* completes only when the last validate_login call returned True.
C5_FailureIsTerminal ==
    /\ result = "False" =>
          /\ Last(calls) = "validate_login -> False"
          /\ Count(calls, "login") = 1
          /\ pc \in {"init_result", "raised"}
    /\ pc = "raised" => result = "False"
    /\ pc = "constructed" =>
          /\ result = "True"
          /\ validated.called /\ validated.ret
          /\ Validations # << >>
          /\ Last(Validations) = "validate_login -> True"

C5_Witness ==
    /\ pc = "raised"
    /\ result = "False"
    /\ typedOn = LOGIN_URL

\* C6: activate_session writes the cookie file exactly when the validation
\* after the explicit login succeeds, and then once, with the browser's
\* cookies; otherwise the file is as the run found it.
C6_CookieFileWrittenOnLoginSuccess ==
    /\ writes \in {0, 1}
    /\ writes = 1 <=> (result = "True" /\ Called("login"))
    /\ writes = 1 =>
          /\ cookieFile.exists
          /\ pickle_load(cookieFile.content) = driverCookies
    /\ writes = 0 => cookieFile = atStart.cookieFile

C6_Witness ==
    /\ pc = "constructed"
    /\ writes = 1
    /\ cookieFile # atStart.cookieFile

\* C11: wait_for returns True when the element appears and False when the
\* wait times out; a timeout raises nothing, and a failure of the wait other
\* than the timeout is not turned into False: it leaves wait_for and its
\* caller (here validate_login, and the constructor with it).
C11_WaitForResult ==
    waited.called =>
        /\ waited.outcome = "present" => waited.result = "True"
        /\ waited.outcome = "timeout" => waited.result = "False"
        /\ waited.outcome = "error" => waited.result = "raised"
        /\ waited.result = "raised" =>
              /\ pc = "crashed"
              /\ Last(calls) = "validate_login raised"
        /\ waited.result # "raised" =>
              /\ Last(Validations) # "validate_login raised"
              /\ validated.called
              /\ validated.marker = (waited.result = "True")

C11_Witness ==
    /\ waited.called
    /\ waited.outcome = "error"
    /\ pc = "crashed"
    /\ Restored("validate_login -> False")

\* C14: the cookies _load_cookies hands to the browser in a run are, one by
\* one, in the same order and with the same fields, the cookies
\* _save_cookies stored at the last successful explicit login of an earlier
\* run (a non-empty list as well as an empty one).
C14_CookieRoundTrip ==
    (Called("_load_cookies") /\ stored.run >= 1 /\ stored.run < runs) =>
        injected = stored.cookies

\* Two cookies stored by the first run are loaded by the second.
C14_Witness ==
    /\ runs = 2
    /\ stored.run = 1
    /\ Called("_load_cookies")
    /\ injected = <<JSESSIONID, LI_AT>>
    /\ pc = "constructed"

\* C13: the stored cookies are loaded only in a run that was given login
\* None and found the cookie file, and then once, as the first thing the
\* run does.  In every other run (login is the empty string or a path, or
\* there is no cookie file) no stored cookie reaches the browser, whose
\* cookie store stays empty until the form is submitted, and the run starts
\* with _get_login_credentials, followed at once by login() whenever it
\* yields credentials.
C13_RestorationOnlyWithNoneAndFile ==
    LET cookieLogin == login = "None" /\ atStart.cookieFile.exists
    IN  /\ Called("_load_cookies") =>
              /\ cookieLogin
              /\ calls[1] = "_load_cookies"
              /\ Count(calls, "_load_cookies") = 1
        /\ ~cookieLogin =>
              /\ ~Called("_load_cookies")
              /\ injected = << >>
              /\ typedOn = "nowhere" => driverCookies = << >>
              /\ calls # << >> => calls[1] = "_get_login_credentials"
              /\ Len(calls) >= 2 => calls[2] = "login"
              /\ (Len(calls) = 1 /\ pc # "login") => pc = "exited"
        /\ (cookieLogin /\ pc \notin {"idle", "activate_session", "crashed"}) =>
              Called("_load_cookies")

\* A run given a credentials path logs in although a cookie file is there.
C13_Witness ==
    /\ login = "Path"
    /\ atStart.cookieFile.exists
    /\ atStart.cookieFile.content # << >>
    /\ pc = "constructed"
    /\ calls[1] = "_get_login_credentials"
    /\ calls[2] = "login"

\* C15: in the checkpoint loop of login(), a step taken while the browser is
\* at a checkpoint location stays in the loop and is one acknowledgment of
\* the operator, after which the URL is read again; the loop is left, however
\* many turns it took, only by a step that finds the browser somewhere else
\* and asks for no further checkpoint acknowledgment, and it is left then.
C15_CheckpointLoop ==
    [][pc = "login_checkpoint" =>
          /\ currentUrl = CHECKPOINT_URL =>
                /\ pc' = "login_checkpoint"
                /\ acks' = acks + 1
                /\ prompts' = Append(prompts, "checkpoint")
          /\ currentUrl # CHECKPOINT_URL =>
                /\ pc' = "validate_login"
                /\ retTo' = "activate_session"
                /\ acks' = acks
                /\ Count(prompts', "checkpoint") = Count(prompts, "checkpoint")
                /\ currentUrl' = currentUrl]_vars

\* The operator acknowledged twice before the checkpoint cleared and the
\* session was established.
C15_Witness ==
    /\ acks = 2
    /\ Count(prompts, "checkpoint") = 2
    /\ pc = "constructed"
    /\ Called("login")

\* C16: when the browser is at the account management URL once the
\* credentials are submitted and the checkpoint loop is over, the operator
\* is told, once, that the dialog is not handled and has to be approved by
\* hand, before login() returns.  That run is not taken for a success: the
\* validation of line 67 follows, the constructor completes only when it
\* returned True, its False makes activate_session return False and the
\* constructor raise RuntimeError, and an error raised by it ends the
\* constructor as well.
C16_ManageAccountReported ==
    /\ (pc = "validate_login" /\ retTo = "activate_session"
            /\ currentUrl = MANAGE_URL) =>
          /\ prompts # << >>
          /\ Last(prompts) = "manage-account"
    /\ "manage-account" \in Range(prompts) =>
          /\ Count(prompts, "manage-account") = 1
          /\ Last(prompts) = "manage-account"
          /\ typedOn # "nowhere"
          /\ pc \in {"validate_login", "validated", "init_result",
                      "constructed", "raised", "crashed"}
          /\ pc = "validated" => retTo = "activate_session"
          /\ pc \in {"init_result", "constructed", "raised"} =>
                (result = "True" <=> Last(Validations) = "validate_login -> True")
          /\ pc = "constructed" => result = "True"
          /\ pc = "raised" => result = "False"
          /\ pc = "crashed" => Last(calls) = "validate_login raised"

\* The operator was asked to approve the dialog, the validation failed and
\* the constructor raised.
C16_Witness ==
    /\ "manage-account" \in Range(prompts)
    /\ pc = "raised"
    /\ Last(calls) = "validate_login -> False"

\* C19: whenever login() types the username and the password, the browser is
\* on the login page; in particular, after the "already logged in" check
\* returned False and left the browser on the page the validation ended on,
\* login() does not go on to the credential fields of that page.
C19_TypedOnLoginPage ==
    /\ typedOn # "nowhere" => typedOn = LOGIN_URL
    /\ (pc = "login_form" /\ Validations # << >>
            /\ Last(calls) = "validate_login -> False") =>
          currentUrl = LOGIN_URL

\* C20: however often close() and __del__ are called on an object, whether
\* its constructor completed or failed, before the browser was started or
\* after, the driver field is None after the first call, a browser that was
\* started is closed and quit once and no more, and a call that finds the
\* driver field None does nothing to a browser.
C20_CloseIdempotent ==
    LET started == currentUrl # "about:blank"
    IN  /\ closeCalls > 0 => driver = "None"
        /\ browserOps \in {<< >>, <<"close", "quit">>}
        /\ browserOps # << >> => (closeCalls > 0 /\ started)
        /\ (closeCalls > 0 /\ started) => browserOps = <<"close", "quit">>
        /\ (closeCalls > 0 /\ ~started) => browserOps = << >>
        /\ (closeCalls = 0 /\ pc # "idle") => (driver = "open" <=> started)

\* The constructor failed with the browser open and the object was closed
\* twice.
C20_Witness ==
    /\ pc = "crashed"
    /\ currentUrl # "about:blank"
    /\ closeCalls = 2
    /\ browserOps = <<"close", "quit">>
    /\ driver = "None"

(* --------------------------- search_profile --------------------------- *)

\* Line 232: match = match_rating > 0.3, in hundredths.
MATCH_THRESHOLD == 30

\* Values of Levenshtein.ratio(he.text, name), in hundredths.
Ratios == {30, 31, 50}

\* An h1 element: whether its class holds "text-heading-xlarge", and the
\* ratio of its text to the name (read for the marked ones alone).
Headings == {[marked |-> FALSE, ratio |-> 0]} \cup {[marked |-> TRUE, ratio |-> r] : r \in Ratios}

ProfileUrls == {"https://www.linkedin.com/in/jane-doe/", "https://www.linkedin.com/in/john-roe/"}

ReversedVariants == <<"&pastCompany=", "&currentCompany=">>

\* Lines 210-212: for employment in (present, past).
EmploymentVariants == <<"&currentCompany=", "&pastCompany=">>

\* Lines 203-208 and 213: query_url = url + employment.
query_url(employment) ==
    "https://www.linkedin.com/search/results/people/?keywords=name" \o employment

is_match_inclusive(match_rating) == match_rating >= MATCH_THRESHOLD

\* Line 232: match = match_rating > 0.3
is_match(match_rating) == match_rating > MATCH_THRESHOLD

RECURSIVE scan_all_headings(_, _, _)
scan_all_headings(hs, match, match_rating) ==
    IF hs = << >> THEN [match |-> match, match_rating |-> match_rating]
    ELSE IF Head(hs).marked
         THEN scan_all_headings(Tail(hs), is_match(Head(hs).ratio), Head(hs).ratio)
         ELSE scan_all_headings(Tail(hs), match, match_rating)

\* Lines 229-234 as the first marked heading alone would decide.
scan_first_marked_only(hs, match, match_rating) ==
    LET marked == {j \in DOMAIN hs : hs[j].marked}
    IN  IF marked = {} THEN [match |-> match, match_rating |-> match_rating]
        ELSE LET j == CHOOSE j \in marked : \A k \in marked : j <= k
             IN  [match |-> is_match(hs[j].ratio), match_rating |-> hs[j].ratio]

RECURSIVE scan_headings(_, _, _)
\* Lines 229-234: the loop over the h1 elements; a marked heading sets
\* match_rating and match, and the loop breaks at the first match.
scan_headings(hs, match, match_rating) ==
    IF hs = << >> THEN [match |-> match, match_rating |-> match_rating]
    ELSE IF Head(hs).marked
         THEN IF is_match(Head(hs).ratio)
              THEN [match |-> TRUE, match_rating |-> Head(hs).ratio]
              ELSE scan_headings(Tail(hs), FALSE, Head(hs).ratio)
         ELSE scan_headings(Tail(hs), match, match_rating)

not_found_keeps_rating(match_rating) == [url |-> "None", score |-> match_rating]

\* Line 241: return None, 0
not_found(match_rating) == [url |-> "None", score |-> 0]

\* The record of the variant being worked on, with its outcome set.
Logged(outcome) == [sp_log EXCEPT ![Len(sp_log)].outcome = outcome]

\* search_profile is called on a constructed provider (lines 200-211).
search_profile ==
    /\ pc = "constructed"
    /\ driver = "open"
    /\ sp_pc \in {"idle", "returned", "raised"}
    /\ sp_pc' = "loop"
    /\ sp_i' = 1
    /\ sp_match_rating' = 0
    /\ sp_ret' = NoReturn
    /\ sp_log' = << >>
    /\ UNCHANGED sessionVars
    /\ UNCHANGED companyVars

\* Lines 212-217: the next variant is queried; no result means continue.
search_profile_query ==
    /\ sp_pc = "loop"
    /\ sp_i <= Len(EmploymentVariants)
    /\ currentUrl' = query_url(EmploymentVariants[sp_i])
    /\ \E n \in 0..MaxResults :
         /\ sp_log' = Append(sp_log,
                        [variant |-> EmploymentVariants[sp_i], results |-> n,
                         opened |-> << >>, url |-> "none", headings |-> << >>,
                         outcome |-> IF n = 0 THEN "no results" ELSE "results"])
         /\ IF n = 0
            THEN /\ sp_i' = sp_i + 1
                 /\ UNCHANGED sp_pc
            ELSE /\ sp_pc' = "open"
                 /\ UNCHANGED sp_i
    /\ UNCHANGED <<sp_match_rating, sp_ret>>
    /\ UNCHANGED <<pc, runs, login, driver, driverCookies, cookieFile, credFiles,
                   credentials, retTo, validated, result, calls, writes, injected,
                   typedOn, prompts, acks, browserOps, atStart>>
    /\ UNCHANGED <<waited, stored, closeCalls>>
    /\ UNCHANGED companyVars

\* Lines 220-223 as a slip would have them: after a timeout the same variant
\* is queried again.
search_profile_open_retries ==
    /\ sp_pc = "open"
    /\ \E hasLink \in BOOLEAN, u \in ProfileUrls, w \in WaitOutcomes :
         IF ~hasLink
         THEN /\ sp_pc' = "raised"
              /\ sp_log' = Logged("no link")
              /\ UNCHANGED <<sp_i, currentUrl, waited>>
         ELSE /\ currentUrl' = u
              /\ waited' = Waited(w)
              /\ IF wait_for_raises(w)
                 THEN /\ sp_pc' = "raised"
                      /\ sp_log' = [Logged("wait error") EXCEPT
                                      ![Len(sp_log)].opened = <<0>>,
                                      ![Len(sp_log)].url = u]
                      /\ UNCHANGED sp_i
                 ELSE IF ~wait_for(w)
                 THEN /\ sp_pc' = "loop"
                      /\ UNCHANGED sp_i
                      /\ sp_log' = [Logged("not loaded") EXCEPT
                                      ![Len(sp_log)].opened = <<0>>,
                                      ![Len(sp_log)].url = u]
                 ELSE /\ sp_pc' = "scan"
                      /\ sp_log' = [Logged("loaded") EXCEPT
                                      ![Len(sp_log)].opened = <<0>>,
                                      ![Len(sp_log)].url = u]
                      /\ UNCHANGED sp_i
    /\ UNCHANGED <<sp_match_rating, sp_ret>>
    /\ UNCHANGED <<pc, runs, login, driver, driverCookies, cookieFile, credFiles,
                   credentials, retTo, validated, result, calls, writes, injected,
                   typedOn, prompts, acks, browserOps, atStart>>
    /\ UNCHANGED <<stored, closeCalls>>
    /\ UNCHANGED companyVars

\* Lines 220-223: the link of results[0] is clicked and the profile content is
\* waited for; a timeout means continue.  find_element raises when the result
\* holds no link, and wait_for lets every exception but the timeout through.
search_profile_open ==
    /\ sp_pc = "open"
    /\ \E hasLink \in BOOLEAN, u \in ProfileUrls, w \in WaitOutcomes :
         IF ~hasLink
         THEN /\ sp_pc' = "raised"
              /\ sp_log' = Logged("no link")
              /\ UNCHANGED <<sp_i, currentUrl, waited>>
         ELSE /\ currentUrl' = u
              /\ waited' = Waited(w)
              /\ IF wait_for_raises(w)
                 THEN /\ sp_pc' = "raised"
                      /\ sp_log' = [Logged("wait error") EXCEPT
                                      ![Len(sp_log)].opened = <<0>>,
                                      ![Len(sp_log)].url = u]
                      /\ UNCHANGED sp_i
                 ELSE IF ~wait_for(w)
                 THEN /\ sp_pc' = "loop"
                      /\ sp_i' = sp_i + 1
                      /\ sp_log' = [Logged("not loaded") EXCEPT
                                      ![Len(sp_log)].opened = <<0>>,
                                      ![Len(sp_log)].url = u]
                 ELSE /\ sp_pc' = "scan"
                      /\ sp_log' = [Logged("loaded") EXCEPT
                                      ![Len(sp_log)].opened = <<0>>,
                                      ![Len(sp_log)].url = u]
                      /\ UNCHANGED sp_i
    /\ UNCHANGED <<sp_match_rating, sp_ret>>
    /\ UNCHANGED <<pc, runs, login, driver, driverCookies, cookieFile, credFiles,
                   credentials, retTo, validated, result, calls, writes, injected,
                   typedOn, prompts, acks, browserOps, atStart>>
    /\ UNCHANGED <<stored, closeCalls>>
    /\ UNCHANGED companyVars

\* Lines 226-240 as the early stop would have them: a failed name match ends
\* the loop over the variants instead of continuing with the next one.
search_profile_scan_gives_up ==
    /\ sp_pc = "scan"
    /\ \E hs \in SeqsUpTo(Headings, MaxHeadings) :
         LET scanned == scan_headings(hs, FALSE, 0)
         IN  /\ sp_match_rating' = scanned.match_rating
             /\ IF scanned.match
                THEN /\ sp_ret' = [url |-> currentUrl, score |-> scanned.match_rating]
                     /\ sp_pc' = "returned"
                     /\ sp_log' = [Logged("match") EXCEPT ![Len(sp_log)].headings = hs]
                     /\ UNCHANGED sp_i
                ELSE /\ sp_pc' = "loop"
                     /\ sp_i' = Len(EmploymentVariants) + 1
                     /\ sp_log' = [Logged("no match") EXCEPT ![Len(sp_log)].headings = hs]
                     /\ UNCHANGED sp_ret
    /\ UNCHANGED sessionVars
    /\ UNCHANGED companyVars

\* Lines 226-240: the headings are scanned; a match returns the current URL
\* and the rating, no match means continue.
search_profile_scan ==
    /\ sp_pc = "scan"
    /\ \E hs \in SeqsUpTo(Headings, MaxHeadings) :
         LET scanned == scan_headings(hs, FALSE, 0)
         IN  /\ sp_match_rating' = scanned.match_rating
             /\ IF scanned.match
                THEN /\ sp_ret' = [url |-> currentUrl, score |-> scanned.match_rating]
                     /\ sp_pc' = "returned"
                     /\ sp_log' = [Logged("match") EXCEPT ![Len(sp_log)].headings = hs]
                     /\ UNCHANGED sp_i
                ELSE /\ sp_pc' = "loop"
                     /\ sp_i' = sp_i + 1
                     /\ sp_log' = [Logged("no match") EXCEPT ![Len(sp_log)].headings = hs]
                     /\ UNCHANGED sp_ret
    /\ UNCHANGED sessionVars
    /\ UNCHANGED companyVars

\* Line 241: both variants were given up.
search_profile_not_found ==
    /\ sp_pc = "loop"
    /\ sp_i > Len(EmploymentVariants)
    /\ sp_ret' = not_found(sp_match_rating)
    /\ sp_pc' = "returned"
    /\ UNCHANGED <<sp_i, sp_match_rating, sp_log>>
    /\ UNCHANGED sessionVars
    /\ UNCHANGED companyVars

\* A provider whose constructor completed after an explicit login with typed
\* credentials.
InitSearch ==
    /\ pc = "constructed"
    /\ runs = 1
    /\ login = "Empty"
    /\ driver = "open"
    /\ currentUrl = MYNETWORK_URL
    /\ driverCookies = <<JSESSIONID, LI_AT>>
    /\ cookieFile = save_cookies(driverCookies)
    /\ credFiles = [f \in {"default", "path"} |-> "absent"]
    /\ atStart = [cookieFile |-> NoFile, credFiles |-> credFiles]
    /\ waited = [called |-> TRUE, outcome |-> "present", result |-> "True"]
    /\ stored = [run |-> 1, cookies |-> driverCookies]
    /\ closeCalls = 0
    /\ credentials = "typed"
    /\ retTo = "none"
    /\ validated = [called |-> TRUE, urlMatches |-> TRUE, marker |-> TRUE, ret |-> TRUE]
    /\ result = "True"
    /\ calls = <<"_get_login_credentials", "login", "validate_login -> True",
                 "_save_cookies">>
    /\ writes = 1
    /\ injected = << >>
    /\ typedOn = LOGIN_URL
    /\ prompts = <<"username", "password">>
    /\ acks = 0
    /\ browserOps = << >>
    /\ SearchIdle
    /\ CompanyIdle

NextSearch ==
    \/ search_profile
    \/ search_profile_query
    \/ search_profile_open
    \/ search_profile_scan
    \/ search_profile_not_found

SpecSearch == InitSearch /\ [][NextSearch]_vars

(* ---------------------- claims on search_profile ---------------------- *)

\* The call is over: it returned or an exception left it.
SearchOver == sp_pc \in {"returned", "raised"}

\* The variant of record e was given up by a continue (lines 217, 223, 237).
GivenUp(e) == e.outcome \in {"no results", "not loaded", "no match"}

\* The marked headings of hs whose ratio is above 0.30.
Above(hs) == {j \in DOMAIN hs : hs[j].marked /\ hs[j].ratio > 30}

Min(S) == CHOOSE x \in S : \A y \in S : x <= y

\* C7 as stated: the current-company variant is queried first, and once it
\* returns at least one result the past-company variant is never queried.
C7_StopsAtFirstNonEmptyVariant ==
    sp_log # << >> =>
        /\ sp_log[1].variant = "&currentCompany="
        /\ sp_log[1].results > 0 => Len(sp_log) = 1

\* C7 amended: the current-company variant is queried first and the
\* past-company variant second, and the search stops at the first variant
\* that matches by name: the past-company variant is queried exactly when the
\* current-company variant was given up (no result, profile not loaded within
\* the wait, or no heading above the threshold), never after a match.
C7_StopsAtFirstMatch ==
    /\ Len(sp_log) <= 2
    /\ sp_log # << >> => sp_log[1].variant = "&currentCompany="
    /\ Len(sp_log) = 2 =>
          /\ sp_log[2].variant = "&pastCompany="
          /\ GivenUp(sp_log[1])
    /\ (SearchOver /\ sp_log # << >> /\ GivenUp(sp_log[1])) => Len(sp_log) = 2
    /\ (sp_log # << >> /\ sp_log[1].outcome = "match") =>
          /\ Len(sp_log) = 1
          /\ sp_pc = "returned"

C7_Witness ==
    /\ sp_pc = "returned"
    /\ Len(sp_log) = 2
    /\ sp_log[1].results > 0
    /\ sp_log[1].outcome = "no match"
    /\ sp_log[2].outcome = "match"

\* C8: when the current-company variant returns no result the past-company
\* variant is queried, and when its first result loads and a marked heading
\* is above the threshold the call returns the URL of the opened profile
\* with the ratio of that heading (the first one above the threshold).
C8_PastVariantMatch ==
    (SearchOver /\ sp_log # << >> /\ sp_log[1].results = 0) =>
        /\ Len(sp_log) = 2
        /\ sp_log[2].variant = "&pastCompany="
        /\ (sp_log[2].outcome \in {"match", "no match"}
              /\ Above(sp_log[2].headings) # {}) =>
              /\ sp_pc = "returned"
              /\ sp_log[2].opened = <<0>>
              /\ sp_ret = [url |-> sp_log[2].url,
                           score |-> sp_log[2].headings[Min(Above(sp_log[2].headings))].ratio]

C8_Witness ==
    /\ sp_pc = "returned"
    /\ Len(sp_log) = 2
    /\ sp_log[1].results = 0
    /\ sp_log[2].results = 1
    /\ Len(sp_log[2].headings) = 2
    /\ sp_ret = [url |-> sp_log[2].url, score |-> 50]

\* C9: the threshold is strict: a scanned profile matches exactly when a
\* marked heading has a ratio above 0.30 (0.30 itself does not match, 0.31
\* does), and a URL is returned with a score above 0.30 only.
C9_StrictThreshold ==
    /\ \A i \in DOMAIN sp_log :
          sp_log[i].outcome \in {"match", "no match"} =>
              (sp_log[i].outcome = "match" <=>
                  \E j \in DOMAIN sp_log[i].headings :
                      /\ sp_log[i].headings[j].marked
                      /\ sp_log[i].headings[j].ratio >= 31)
    /\ sp_ret.url \notin {"None", "unset"} => sp_ret.score > 30

C9_Witness ==
    /\ sp_pc = "returned"
    /\ Len(sp_log) = 2
    /\ sp_log[1].outcome = "no match"
    /\ sp_log[1].headings = <<[marked |-> TRUE, ratio |-> 30]>>
    /\ sp_log[2].outcome = "match"
    /\ sp_ret.score = 31

\* C10: when no variant matches (each had no result, did not load within
\* the wait or had no heading above the threshold) the call raises nothing
\* and returns (None, 0); None never comes with another score.
C10_NotFoundSentinel ==
    /\ (Len(sp_log) = 2 /\ \A i \in DOMAIN sp_log : GivenUp(sp_log[i])) =>
          /\ sp_pc \in {"loop", "returned"}
          /\ sp_pc = "returned" => sp_ret = [url |-> "None", score |-> 0]
    /\ (sp_pc = "returned" /\ \A i \in DOMAIN sp_log : sp_log[i].outcome # "match") =>
          sp_ret = [url |-> "None", score |-> 0]
    /\ sp_ret.url = "None" => sp_ret.score = 0

C10_Witness ==
    /\ sp_pc = "returned"
    /\ sp_ret.url = "None"
    /\ sp_match_rating = 30
    /\ sp_log[1].outcome = "not loaded"
    /\ sp_log[2].outcome = "no match"

\* C17: in one call of search_profile every variant is queried once at
\* most, in the order of line 212, and of the results of a variant none but
\* the first (index 0) is opened, once.  When the opened profile does not
\* show its content within the wait the variant is over: the loop is at the
\* next variant, nothing more of this one was opened or queried.
C17_OneQueryOneResultPerVariant ==
    /\ Len(sp_log) <= Len(EmploymentVariants)
    /\ \A i \in DOMAIN sp_log :
          /\ sp_log[i].variant = EmploymentVariants[i]
          /\ \A j \in DOMAIN sp_log : sp_log[j].variant = sp_log[i].variant => j = i
          /\ sp_log[i].opened \in {<< >>, <<0>>}
          /\ sp_log[i].opened = <<0>> => sp_log[i].results > 0
          /\ sp_log[i].outcome = "not loaded" =>
                /\ sp_log[i].opened = <<0>>
                /\ sp_log[i].headings = << >>
                /\ i = Len(sp_log) =>
                      /\ sp_pc \in {"loop", "returned"}
                      /\ sp_i = i + 1

\* The current-company variant had two results, the first did not load in
\* time, and the call went on to the past-company variant and ended.
C17_Witness ==
    /\ SearchOver
    /\ Len(sp_log) = 2
    /\ sp_log[1].results = 2
    /\ sp_log[1].outcome = "not loaded"
    /\ sp_log[1].opened = <<0>>

\* C18 as stated: whether an opened profile matches, and the score, depend
\* on its first marked heading alone.
C18_FirstMarkedHeadingOnly ==
    \A i \in DOMAIN sp_log :
        LET hs == sp_log[i].headings
            marked == {j \in DOMAIN hs : hs[j].marked}
        IN  (sp_log[i].outcome \in {"match", "no match"} /\ marked # {}) =>
                /\ sp_log[i].outcome = "match" <=> is_match(hs[Min(marked)].ratio)
                /\ (i = Len(sp_log) /\ sp_pc \in {"loop", "returned"}) =>
                      sp_match_rating = hs[Min(marked)].ratio

\* C18 amended: the marked headings of an opened profile are consulted in
\* their order until one is above the threshold: the variant matches exactly
\* when some marked heading is above the threshold, the score is the ratio
\* of the first such heading, and when there is none the rating the scan
\* ends with is the ratio of the last marked heading (0 without any).
C18_MarkedHeadingsUntilMatch ==
    \A i \in DOMAIN sp_log :
        LET hs == sp_log[i].headings
            marked == {j \in DOMAIN hs : hs[j].marked}
            above == {j \in marked : is_match(hs[j].ratio)}
            rating == IF above # {} THEN hs[Min(above)].ratio
                      ELSE IF marked # {} THEN hs[-Min({-j : j \in marked})].ratio
                      ELSE 0
        IN  sp_log[i].outcome \in {"match", "no match"} =>
                /\ sp_log[i].outcome = "match" <=> above # {}
                /\ (i = Len(sp_log) /\ sp_pc \in {"loop", "returned"}) =>
                      sp_match_rating = rating
                /\ sp_log[i].outcome = "match" =>
                      sp_ret = [url |-> sp_log[i].url, score |-> rating]

\* The first marked heading fails the threshold, the second one is above it
\* and gives the score.
C18_Witness ==
    /\ sp_pc = "returned"
    /\ Len(sp_log) = 1
    /\ sp_log[1].headings = <<[marked |-> TRUE, ratio |-> 30],
                              [marked |-> TRUE, ratio |-> 50]>>
    /\ sp_ret = [url |-> sp_log[1].url, score |-> 50]

(* --------------------------- search_company --------------------------- *)

\* What an href is made of: the delimiter %22 and two digits.
HrefSymbols == {"%22", "7", "8"}

\* The symbols \d matches (line 183).
Digits == {"7", "8"}

\* Longer hrefs: several ids, with other characters around them, as in
\* ...%2278%22...%228%22...
LongHrefs ==
    {<<"x", "%22", "7", "8", "%22", "x", "%22", "8", "%22", "x">>,
     <<"%22", "8", "%22", "%22", "7", "%22">>,
     <<"%22", "7", "%22", "8", "%22", "7", "%22">>,
     <<"%22", "7", "x", "8", "%22", "%22", "8", "%22", "7", "%22">>}

Hrefs == SeqsUpTo(HrefSymbols, MaxHref) \cup LongHrefs

\* An info item of a company page: its tag name and, for a link, its href
\* (get_attribute gives None when the attribute is missing).  The code reads
\* the href of links alone.
InfoItems ==
    {[tag |-> "div", hasHref |-> FALSE, href |-> << >>],
     [tag |-> "a", hasHref |-> FALSE, href |-> << >>]}
    \cup {[tag |-> "a", hasHref |-> TRUE, href |-> h] : h \in Hrefs}

CompanyUrls == {"https://www.linkedin.com/company/acme/"}

\* Lines 178-181: Company(name=link.text, url=link.get_attribute("href")),
\* ids being the empty default list (line 166).
Companies == {[name |-> "company", url |-> u, ids |-> << >>] : u \in CompanyUrls}

RECURSIVE DigitsEnd(_, _)
\* The greedy \d+ : the first position from i on that holds no digit.
DigitsEnd(s, i) == IF i <= Len(s) /\ s[i] \in Digits THEN DigitsEnd(s, i + 1) ELSE i

RECURSIVE findall(_, _)
\* Lines 183 and 193: re.compile(r"%22(\d+)%22").findall(href), scanning from
\* position i: the leftmost match is taken, its group is kept and the scan
\* goes on behind the match.
findall(s, i) ==
    IF i > Len(s) THEN << >>
    ELSE LET j == DigitsEnd(s, i + 1)
         IN  IF s[i] = "%22" /\ j > i + 1 /\ j <= Len(s) /\ s[j] = "%22"
             THEN <<SubSeq(s, i + 1, j - 1)>> \o findall(s, j + 1)
             ELSE findall(s, i + 1)

\* Lines 169-181: the query, the wait for the result titles (no result in
\* time returns the empty list) and the first pass over the results.
search_company ==
    /\ pc = "constructed"
    /\ driver = "open"
    /\ sc_pc \in {"idle", "returned", "raised"}
    /\ currentUrl' = "https://www.linkedin.com/search/results/companies/?keywords=name"
    /\ sc_k' = 0
    /\ sc_n' = 0
    /\ sc_log' = << >>
    /\ sc_done' = << >>
    /\ \E w \in WaitOutcomes :
         /\ waited' = Waited(w)
         /\ IF wait_for_raises(w)
            THEN /\ sc_pc' = "raised"
                 /\ sc_companies' = << >>
                 /\ sc_ret' = << >>
            ELSE IF ~wait_for(w)
            THEN /\ sc_pc' = "returned"
                 /\ sc_companies' = << >>
                 /\ sc_ret' = << >>
            ELSE /\ sc_pc' = "companies"
                 /\ sc_companies' \in SeqsUpTo(Companies, MaxCompanies)
                 /\ sc_ret' = << >>
    /\ UNCHANGED <<pc, runs, login, driver, driverCookies, cookieFile, credFiles,
                   credentials, retTo, validated, result, calls, writes, injected,
                   typedOn, prompts, acks, browserOps, atStart, stored, closeCalls>>
    /\ UNCHANGED searchVars

\* Lines 184-189: the page of the next company is opened, the info items
\* are waited for (the result of the wait is not used) and collected.
search_company_visit ==
    /\ sc_pc = "companies"
    /\ sc_k < Len(sc_companies)
    /\ sc_k' = sc_k + 1
    /\ currentUrl' = sc_companies[sc_k + 1].url
    /\ sc_log' = << >>
    /\ \E w \in WaitOutcomes :
         /\ waited' = Waited(w)
         /\ IF wait_for_raises(w)
            THEN /\ sc_pc' = "raised"
                 /\ sc_n' = 0
            ELSE /\ sc_pc' = "infos"
                 /\ sc_n' \in 0..MaxInfos
    /\ UNCHANGED <<sc_companies, sc_done, sc_ret>>
    /\ UNCHANGED <<pc, runs, login, driver, driverCookies, cookieFile, credFiles,
                   credentials, retTo, validated, result, calls, writes, injected,
                   typedOn, prompts, acks, browserOps, atStart, stored, closeCalls>>
    /\ UNCHANGED searchVars

\* Lines 190-195 without the break of line 195: every link of the page sets
\* the ids, the last one wins.
search_company_info_no_break ==
    /\ sc_pc = "infos"
    /\ Len(sc_log) < sc_n
    /\ \E ci \in InfoItems :
         /\ sc_log' = Append(sc_log, ci)
         /\ IF ci.tag = "a"
            THEN IF ci.hasHref
                 THEN /\ sc_companies' =
                           [sc_companies EXCEPT ![sc_k].ids = findall(ci.href, 1)]
                      /\ UNCHANGED sc_pc
                 ELSE /\ sc_pc' = "raised"
                      /\ UNCHANGED sc_companies
            ELSE UNCHANGED <<sc_pc, sc_companies>>
    /\ UNCHANGED <<sc_k, sc_n, sc_done, sc_ret>>
    /\ UNCHANGED sessionVars
    /\ UNCHANGED searchVars

\* Lines 190-195: the next info item is examined; the first link gives the
\* ids and ends the loop.  findall raises TypeError on a missing href.
search_company_info ==
    /\ sc_pc = "infos"
    /\ Len(sc_log) < sc_n
    /\ \E ci \in InfoItems :
         /\ sc_log' = Append(sc_log, ci)
         /\ IF ci.tag = "a"
            THEN IF ci.hasHref
                 THEN /\ sc_companies' =
                           [sc_companies EXCEPT ![sc_k].ids = findall(ci.href, 1)]
                      /\ sc_done' = Append(sc_done, findall(ci.href, 1))
                      /\ sc_pc' = "companies"
                 ELSE /\ sc_pc' = "raised"
                      /\ UNCHANGED <<sc_companies, sc_done>>
            ELSE UNCHANGED <<sc_pc, sc_companies, sc_done>>
    /\ UNCHANGED <<sc_k, sc_n, sc_ret>>
    /\ UNCHANGED sessionVars
    /\ UNCHANGED searchVars

\* Line 190: the loop over the info items ran to its end without a break.
search_company_infos_end ==
    /\ sc_pc = "infos"
    /\ Len(sc_log) = sc_n
    /\ sc_pc' = "companies"
    /\ sc_done' = Append(sc_done, sc_companies[sc_k].ids)
    /\ UNCHANGED <<sc_companies, sc_k, sc_n, sc_log, sc_ret>>
    /\ UNCHANGED sessionVars
    /\ UNCHANGED searchVars

\* Line 197: return companies.
search_company_return ==
    /\ sc_pc = "companies"
    /\ sc_k = Len(sc_companies)
    /\ sc_pc' = "returned"
    /\ sc_ret' = sc_companies
    /\ UNCHANGED <<sc_companies, sc_k, sc_n, sc_log, sc_done>>
    /\ UNCHANGED sessionVars
    /\ UNCHANGED searchVars

NextCompany ==
    \/ search_company
    \/ search_company_visit
    \/ search_company_info
    \/ search_company_infos_end
    \/ search_company_return

\* search_company on a provider whose constructor completed.
SpecCompany == InitSearch /\ [][NextCompany]_vars

(* ----------------------- claims on search_company --------------------- *)

\* Positions p < q of s hold two delimiters with digits, and at least one,
\* between them.
IsToken(s, p, q) ==
    /\ p + 1 < q
    /\ s[p] = "%22"
    /\ s[q] = "%22"
    /\ \A i \in (p + 1)..(q - 1) : s[i] \in Digits

RECURSIVE TokensEndingAt(_, _)
\* How many tokens in a row, each opened by the delimiter that closes the one
\* before, end at position p.
TokensEndingAt(s, p) ==
    IF \E o \in 1..p : IsToken(s, o, p)
    THEN 1 + TokensEndingAt(s, CHOOSE o \in 1..p : IsToken(s, o, p))
    ELSE 0

\* The tokens of s, every delimiter belonging to one token at most: a
\* delimiter that closes a token does not open the next one.
Tokens(s) ==
    {t \in (1..Len(s)) \X (1..Len(s)) :
        IsToken(s, t[1], t[2]) /\ TokensEndingAt(s, t[1]) % 2 = 0}

\* ids lists the tokens of s in their order of appearance.
IdsOf(s, ids) ==
    /\ Len(ids) = Cardinality(Tokens(s))
    /\ \A t \in Tokens(s) :
          ids[Cardinality({u \in Tokens(s) : u[1] <= t[1]})]
              = SubSeq(s, t[1] + 1, t[2] - 1)

\* The info items examined on the page of the current company hold a link.
Anchors(log) == {i \in 1..Len(log) : log[i].tag = "a"}

\* C12: every company of the list search_company returns has as ids the
\* numeric tokens between %22 delimiters, in their order of appearance, of
\* the href of the first link among the info items of its page: the loop
\* over the items ends at that link, so that no later item is looked at,
\* and the ids stay empty on a page without a link.  The ids a company got
\* are the ones it is returned with, and a company whose page was not
\* reached yet has none.
C12_IdsFromFirstAnchor ==
    /\ sc_pc \in {"companies", "returned"} /\ sc_k >= 1 =>
          /\ Len(sc_done) = sc_k
          /\ Anchors(sc_log) = {} =>
                /\ Len(sc_log) = sc_n
                /\ sc_done[sc_k] = << >>
          /\ Anchors(sc_log) # {} =>
                /\ Anchors(sc_log) = {Len(sc_log)}
                /\ IdsOf(Last(sc_log).href, sc_done[sc_k])
    /\ sc_pc \in {"companies", "infos", "returned"} =>
          /\ \A k \in 1..Len(sc_done) : sc_companies[k].ids = sc_done[k]
          /\ \A k \in (Len(sc_done) + 1)..Len(sc_companies) :
                sc_companies[k].ids = << >>
    /\ sc_pc = "returned" /\ sc_ret # << >> =>
          /\ sc_ret = sc_companies
          /\ Len(sc_done) = Len(sc_ret)

\* A company is returned whose page showed a div and then a link with two
\* ids between other characters.
C12_Witness ==
    /\ sc_pc = "returned"
    /\ Len(sc_ret) = 1
    /\ Len(sc_log) = 2
    /\ sc_n = 2
    /\ sc_log[1].tag = "div"
    /\ sc_log[2].href = <<"x", "%22", "7", "8", "%22", "x", "%22", "8", "%22", "x">>
    /\ sc_ret[1].ids = << <<"7", "8">>, <<"8">> >>

====
